---- MODULE Spec2Model ----
(***************************************************************************)
(* Model of backend-services/notifier/core/notifier.py: the Notifier       *)
(* service (run / stop / is_running), its kombu Worker with one consumer   *)
(* per log category, the two message handlers and the logging filter that  *)
(* gates both category loggers.                                            *)
(*                                                                         *)
(* Python dicts are modelled as sequences of <<key, value>> pairs in       *)
(* insertion order, because HijackLogFilter.filter iterates the keys of a  *)
(* filter entry in that order and may raise before it reaches a later key. *)
(***************************************************************************)
EXTENDS Integers, Sequences, FiniteSets, TLC

\* ------------------------------------------------------------------ bounds
MaxMsgs == 2        \* messages the broker publishes in one behaviour
MaxRuns == 2        \* calls of Notifier.run() in one behaviour

\* --------------------------------------------------------------- constants
Threads == {1, 2}                    \* threads of the control plane
Runners == {1}                       \* the thread that calls Notifier.run()
Categories == {"hij-log", "mail-log"}   \* routing keys of the two queues
NoWorker == 0                        \* self.worker = None
Workers == 1..MaxRuns                \* Worker objects, in creation order

VARIABLES
    _running,        \* Notifier._running
    worker,          \* Notifier.worker: NoWorker or the last Worker stored
    should_stop,     \* Worker.should_stop of every Worker object
    nworkers,        \* number of Worker objects constructed so far
    nruns,           \* number of run() calls made so far
    pc,              \* position of each run() call
    myWorker,        \* the Worker a run() call constructed (local to the call)
    exc,             \* exception the current / last run() call caught
    returned,        \* how the last run() call came back to its caller
    consumed,        \* messages handled by the current / last run() call
    spc,             \* position of the stop() call of the control thread
    stopCtx,         \* whether the stop() call in progress began while STOPPED
    lastStop,        \* when the last stop() call wrote: "in_run" (since the
                     \* current run() began), "stopped" (call made and finished
                     \* with no run() in progress), "after_run", "none"
    HIJACK_LOG_FILTER,  \* the environment variable the module reads at import
    hij_log_filter,  \* module global hij_log_filter
    msgs,            \* messages published to the exchange, by id
    queue,           \* ids waiting in each category queue
    acks,            \* acknowledgments the broker received for each id
    events,          \* what the handler did for each id, in order
    result,          \* outcome of handling each id
    sink             \* log lines written by each category logger

vars == <<_running, worker, should_stop, nworkers, nruns, pc, myWorker, exc,
          returned, consumed, spc, stopCtx, lastStop,
          HIJACK_LOG_FILTER, hij_log_filter,
          msgs, queue, acks, events, result, sink>>

\* ------------------------------------------------------------ dict helpers
RECURSIVE IndexOf(_, _, _)
IndexOf(d, key, i) ==
    IF i > Len(d) THEN 0
    ELSE IF d[i][1] = key THEN i ELSE IndexOf(d, key, i + 1)

HasKey(d, key) == IndexOf(d, key, 1) # 0

GetItem(d, key) == d[IndexOf(d, key, 1)][2]

\* Get that never finds the key: the annotation of every record is the
\* default
Get_AlwaysDefault(d, key, default) == default

\* dict.get(key, default)
Get(d, key, default) == IF HasKey(d, key) THEN GetItem(d, key) ELSE default

\* ujson.dumps of a dict of strings
RECURSIVE DumpsItems(_, _)
DumpsItems(d, i) ==
    IF i > Len(d) THEN ""
    ELSE (IF i > 1 THEN "," ELSE "")
         \o "\"" \o d[i][1] \o "\":\"" \o d[i][2] \o "\""
         \o DumpsItems(d, i + 1)

Dumps(payload) ==
    IF payload.kind = "dict" THEN "{" \o DumpsItems(payload.items, 1) \o "}"
    ELSE "[]"

\* ------------------------------------------------------------------ inputs
\* message bodies: one that cannot be decoded, one that decodes to a list,
\* and JSON objects with and without "community_annotation"
BadBody == [kind |-> "undecodable", items |-> <<>>]
ListBody == [kind |-> "list", items |-> <<>>]
Dict(items) == [kind |-> "dict", items |-> items]
List(items) == [kind |-> "list", items |-> items]
Number == [kind |-> "number", items |-> <<>>]     \* a number other than 0
Null == [kind |-> "null", items |-> <<>>]

\* bodies published under Spec: one whose handler raises, one it can log
Payloads == { BadBody, Dict(<< <<"type", "other">> >>) }

\* bodies published under RecordSpec: JSON objects with and without an
\* annotation, which the handlers log
Records ==
    { Dict(<< <<"community_annotation", "abuse123">>, <<"type", "hijack">> >>),
      Dict(<< <<"type", "other">> >>) }

\* bodies published under InputSpec
AllPayloads ==
    { BadBody,
      ListBody,
      Dict(<< <<"community_annotation", "abuse123">>, <<"type", "hijack">> >>),
      Dict(<< <<"type", "other">> >>) }

\* values of the HIJACK_LOG_FILTER environment variable after json.loads:
\* no rules, and rules on the annotation that turn the body of Payloads down
FilterConfigs ==
    { List(<<>>),
      List(<< << <<"community_annotation", "critical">> >>,
              << <<"community_annotation", "abuse123">> >> >>) }

\* under InputSpec also a rule on a field no log record has, and a rule of
\* two pairs of which a record can match one
AllFilterConfigs ==
    FilterConfigs \cup
    { List(<< << <<"type", "hijack">> >> >>),
      List(<< << <<"community_annotation", "critical">>,
                 <<"levelname", "INFO">> >> >>) }

\* ---------------------------------------------------------- configuration
\* what the environment holds for HIJACK_LOG_FILTER: nothing, a text that is
\* not JSON, or the text of a JSON value
EnvUnset == [kind |-> "unset", value |-> Null]
EnvNotJson == [kind |-> "not_json", value |-> Null]
EnvJson(value) == [kind |-> "json", value |-> value]

\* the texts of a set of JSON values
Texts(values) == {EnvJson(v) : v \in values}

\* texts that are not a JSON list of objects: not JSON at all, one object
\* in place of a list of objects, a number, null
MalformedEnvs ==
    { EnvNotJson,
      EnvJson(Dict(<< <<"community_annotation", "critical">> >>)),
      EnvJson(Number),
      EnvJson(Null) }

\* the module-level try / except around json.loads(os.getenv(..., "[]"))
LoadFilter(env) ==
    IF env.kind = "unset" THEN List(<<>>)
    ELSE IF env.kind = "not_json" THEN List(<<>>)
    ELSE env.value

\* ------------------------------------------------------------------ filter
\* the inner loop of HijackLogFilter.filter over the keys of one entry:
\* "accept" (return True), "raise" (KeyError on rec.__dict__[key]) or "next"
RECURSIVE FilterEntry(_, _, _)
FilterEntry(rec, entry, k) ==
    IF k > Len(entry) THEN "next"
    ELSE IF ~HasKey(rec, entry[k][1]) THEN "raise"
    ELSE IF GetItem(rec, entry[k][1]) = entry[k][2] THEN "accept"
    ELSE FilterEntry(rec, entry, k + 1)

\* the outer loop over the entries of hij_log_filter
RECURSIVE FilterEntries(_, _, _)
FilterEntries(rec, rules, i) ==
    IF i > Len(rules) THEN "reject"
    ELSE LET r == FilterEntry(rec, rules[i], 1)
         IN  IF r = "next" THEN FilterEntries(rec, rules, i + 1) ELSE r

\* bool(value) of a JSON value
Truthy(value) ==
    /\ value.kind # "null"
    /\ value.kind \in {"list", "dict"} => value.items # <<>>

\* HijackLogFilter.filter(rec) with the global hij_log_filter = rules.
\* A value that is not a list makes the loops raise: a number cannot be
\* iterated (TypeError), and iterating an object yields its keys, whose
\* characters the inner loop looks up in rec.__dict__ (KeyError).
filter(rec, rules) ==
    IF ~Truthy(rules) THEN "accept"
    ELSE IF rules.kind = "list" THEN FilterEntries(rec, rules.items, 1)
    ELSE "raise"

\* ----------------------------------------------------------------- logging
LoggerName(cat) == IF cat = "hij-log" THEN "hijack_logger" ELSE "mail_logger"

\* rec.__dict__ of the LogRecord that Logger.info(msg, extra=...) builds:
\* the standard attributes the model keeps, then the keys of extra
LogRecord(cat, msg, annotation) ==
    << <<"name", LoggerName(cat)>>,
       <<"msg", msg>>,
       <<"levelname", "INFO">>,
       <<"community_annotation", annotation>> >>

\* Logger.info(msg, extra={"community_annotation": annotation}) on the logger
\* of a category: the filter attached to the logger runs first and its
\* exception propagates to the caller; an accepted record goes to the
\* logger's handlers.  sinkOk: whether the handler manages to write (one
\* that fails reports through Handler.handleError and does not raise).
\* The loggers are taken to be enabled for INFO, as the service configures
\* them; a disabled logger would drop the record before the filter.
LogInfo(cat, msg, annotation, rules, sinkOk) ==
    LET verdict == filter(LogRecord(cat, msg, annotation), rules)
    IN  CASE verdict = "raise" ->
               [events |-> <<"filter">>, line |-> <<>>, result |-> "filter_error"]
          [] verdict = "reject" ->
               [events |-> <<"filter">>, line |-> <<>>, result |-> "filtered"]
          [] verdict = "accept" /\ sinkOk ->
               [events |-> <<"filter", "emit">>,
                line |-> <<[logger |-> cat, msg |-> msg,
                            annotation |-> annotation]>>,
                result |-> "written"]
          [] OTHER ->
               [events |-> <<"filter", "emit">>, line |-> <<>>,
                result |-> "sink_failed"]

\* outcomes of a handler call that are an exception leaving the handler
HandlerErrors == {"decode_error", "attribute_error", "filter_error"}

\* HandleLog with message.ack() moved behind the log call, so that an
\* exception in the handler leaves the message unacknowledged
HandleLog_AckAfterLog(cat, payload, rules, sinkOk) ==
    IF payload.kind = "undecodable"
    THEN [events |-> <<"payload">>, acks |-> 0, line |-> <<>>,
          result |-> "decode_error"]
    ELSE IF payload.kind # "dict"
    THEN [events |-> <<"payload", "dumps", "get">>, acks |-> 0,
          line |-> <<>>, result |-> "attribute_error"]
    ELSE LET l == LogInfo(cat, Dumps(payload),
                          Get(payload.items, "community_annotation", "NA"),
                          rules, sinkOk)
         IN  [events |-> <<"payload", "dumps", "get">> \o l.events
                           \o (IF l.result = "filter_error" THEN <<>> ELSE <<"ack">>),
              acks |-> IF l.result = "filter_error" THEN 0 ELSE 1,
              line |-> l.line, result |-> l.result]

\* one handler call, start to finish: message.ack(), message.payload,
\* json.dumps(payload), payload.get("community_annotation", "NA"), log.info
HandleLog(cat, payload, rules, sinkOk) ==
    IF payload.kind = "undecodable"
    THEN [events |-> <<"ack", "payload">>, acks |-> 1, line |-> <<>>,
          result |-> "decode_error"]
    ELSE IF payload.kind # "dict"
    THEN [events |-> <<"ack", "payload", "dumps", "get">>, acks |-> 1,
          line |-> <<>>, result |-> "attribute_error"]
    ELSE LET l == LogInfo(cat, Dumps(payload),
                          Get(payload.items, "community_annotation", "NA"),
                          rules, sinkOk)
         IN  [events |-> <<"ack", "payload", "dumps", "get">> \o l.events,
              acks |-> 1, line |-> l.line, result |-> l.result]

handle_hij_log(payload, rules, sinkOk) == HandleLog("hij-log", payload, rules, sinkOk)

handle_mail_log(payload, rules, sinkOk) == HandleLog("mail-log", payload, rules, sinkOk)

on_message(cat, payload, rules, sinkOk) ==
    IF cat = "hij-log" THEN handle_hij_log(payload, rules, sinkOk)
    ELSE handle_mail_log(payload, rules, sinkOk)

\* the sink of category c after the lines a handler call logged have gone to
\* the handlers of their logger; id is the message the call was made for
Emit(snk, c, lines, id) ==
    LET mine == SelectSeq(lines, LAMBDA l : l.logger = c)
    IN  snk \o [i \in 1..Len(mine) |->
                  [id |-> id, msg |-> mine[i].msg,
                   annotation |-> mine[i].annotation]]

\* --------------------------------------------------------------- lifecycle
is_running == _running

\* the consume loop of a run() call is active
Consuming(t) == pc[t] \in {"consume", "drain"}

\* WorkerLifecycleState of the spec, read off the code's state
State ==
    IF \E t \in Threads : Consuming(t) /\ ~should_stop[myWorker[t]] THEN "RUNNING"
    ELSE IF \E t \in Threads : Consuming(t) \/ pc[t] = "finally" THEN "STOPPING"
    ELSE IF \E t \in Threads : pc[t] = "connect" THEN "STARTING"
    ELSE "STOPPED"

InitWith(envs) ==
    /\ _running = FALSE
    /\ worker = NoWorker
    /\ should_stop = [w \in Workers |-> FALSE]
    /\ nworkers = 0
    /\ nruns = 0
    /\ pc = [t \in Threads |-> "idle"]
    /\ myWorker = [t \in Threads |-> NoWorker]
    /\ exc = [t \in Threads |-> "none"]
    /\ returned = [t \in Threads |-> "none"]
    /\ consumed = [t \in Threads |-> 0]
    /\ spc = "idle"
    /\ stopCtx = "none"
    /\ lastStop = "none"
    /\ HIJACK_LOG_FILTER \in envs
    /\ hij_log_filter = LoadFilter(HIJACK_LOG_FILTER)
    /\ msgs = <<>>
    /\ queue = [c \in Categories |-> <<>>]
    /\ acks = [i \in 1..MaxMsgs |-> 0]
    /\ events = [i \in 1..MaxMsgs |-> <<>>]
    /\ result = [i \in 1..MaxMsgs |-> "pending"]
    /\ sink = [c \in Categories |-> <<>>]

Init == InitWith(Texts(FilterConfigs))

notifierVars == <<_running, worker, should_stop, nworkers, nruns, pc, myWorker,
                  exc, returned, consumed>>
stopVars == <<spc, stopCtx, lastStop>>
configVars == <<HIJACK_LOG_FILTER, hij_log_filter>>
brokerVars == <<msgs, queue, acks, events, result, sink>>

\* ------------------------------------------------------------------ broker
\* a publisher sends a message with routing key cat to hijack-notification
Publish(cat, payload) ==
    /\ Len(msgs) < MaxMsgs
    /\ msgs' = Append(msgs, [cat |-> cat, payload |-> payload])
    /\ queue' = [queue EXCEPT ![cat] = Append(@, Len(msgs) + 1)]
    /\ UNCHANGED <<acks, events, result, sink>>
    /\ UNCHANGED <<notifierVars, stopVars, configVars>>

\* ---------------------------------------------------------- Notifier.run()
\* self._running = True
run_begin(t) ==
    /\ pc[t] = "idle"
    /\ nruns < MaxRuns
    /\ nruns' = nruns + 1
    /\ _running' = TRUE
    /\ pc' = [pc EXCEPT ![t] = "connect"]
    /\ exc' = [exc EXCEPT ![t] = "none"]
    /\ returned' = [returned EXCEPT ![t] = "none"]
    /\ consumed' = [consumed EXCEPT ![t] = 0]
    /\ UNCHANGED lastStop
    /\ UNCHANGED <<worker, should_stop, nworkers, myWorker>>
    /\ UNCHANGED <<spc, stopCtx, configVars, brokerVars>>

\* run_connect that keeps the Worker of an earlier run() when there is one
run_connect_ReusesWorker(t) ==
    /\ pc[t] = "connect"
    /\ nworkers < MaxRuns
    /\ nworkers' = nworkers + 1
    /\ worker' = IF worker # NoWorker THEN worker ELSE nworkers + 1
    /\ myWorker' = [myWorker EXCEPT ![t] = worker']
    /\ UNCHANGED should_stop
    /\ pc' = [pc EXCEPT ![t] = "consume"]
    /\ UNCHANGED <<_running, nruns, exc, returned, consumed>>
    /\ UNCHANGED <<stopVars, configVars, brokerVars>>

\* with Connection(...): self.worker = self.Worker(connection); the exchange
\* and both queues are declared and the Worker starts with should_stop False
run_connect(t) ==
    /\ pc[t] = "connect"
    /\ nworkers < MaxRuns
    /\ nworkers' = nworkers + 1
    /\ worker' = nworkers + 1
    /\ myWorker' = [myWorker EXCEPT ![t] = nworkers + 1]
    /\ should_stop' = [should_stop EXCEPT ![nworkers + 1] = FALSE]
    /\ pc' = [pc EXCEPT ![t] = "consume"]
    /\ UNCHANGED <<_running, nruns, exc, returned, consumed>>
    /\ UNCHANGED <<stopVars, configVars, brokerVars>>

\* the broker is unreachable or a declaration fails: Worker.__init__ raises
run_connect_fail(t) ==
    /\ pc[t] = "connect"
    /\ pc' = [pc EXCEPT ![t] = "finally"]
    /\ exc' = [exc EXCEPT ![t] = "startup"]
    /\ UNCHANGED <<_running, worker, should_stop, nworkers, nruns, myWorker,
                   returned, consumed>>
    /\ UNCHANGED <<stopVars, configVars, brokerVars>>

\* self.worker.run(): top of a loop iteration, should_stop is False
loop_continue(t) ==
    /\ pc[t] = "consume"
    /\ ~should_stop[myWorker[t]]
    /\ pc' = [pc EXCEPT ![t] = "drain"]
    /\ UNCHANGED <<_running, worker, should_stop, nworkers, nruns, myWorker,
                   exc, returned, consumed>>
    /\ UNCHANGED <<stopVars, configVars, brokerVars>>

\* top of a loop iteration, should_stop is True: worker.run() returns
loop_exit(t) ==
    /\ pc[t] = "consume"
    /\ should_stop[myWorker[t]]
    /\ pc' = [pc EXCEPT ![t] = "finally"]
    /\ UNCHANGED <<_running, worker, should_stop, nworkers, nruns, myWorker,
                   exc, returned, consumed>>
    /\ UNCHANGED <<stopVars, configVars, brokerVars>>

\* deliver handing the handler the last message the consumer prefetched
\* rather than the first
deliver_LastPrefetched(t, cat, sinkOk) ==
    /\ pc[t] = "drain"
    /\ queue[cat] # <<>>
    /\ \E id \in {queue[cat][Len(queue[cat])]} :
       \E h \in {on_message(cat, msgs[id].payload, hij_log_filter, sinkOk)} :
           /\ queue' = [queue EXCEPT ![cat] = SubSeq(@, 1, Len(@) - 1)]
           /\ acks' = [acks EXCEPT ![id] = @ + h.acks]
           /\ events' = [events EXCEPT ![id] = h.events]
           /\ result' = [result EXCEPT ![id] = h.result]
           /\ sink' = [c \in Categories |-> Emit(sink[c], c, h.line, id)]
           /\ consumed' = [consumed EXCEPT ![t] = @ + 1]
           /\ exc' = [exc EXCEPT ![t] =
                         IF h.result \in HandlerErrors THEN "handler" ELSE "none"]
           /\ pc' = [pc EXCEPT ![t] =
                        IF h.result \in HandlerErrors THEN "finally" ELSE "consume"]
    /\ UNCHANGED <<_running, worker, should_stop, nworkers, nruns, myWorker,
                   returned, msgs>>
    /\ UNCHANGED <<stopVars, configVars>>

\* drain_events delivers the head of a category queue to its handler
deliver(t, cat, sinkOk) ==
    /\ pc[t] = "drain"
    /\ queue[cat] # <<>>
    /\ \E id \in {Head(queue[cat])} :
       \E h \in {on_message(cat, msgs[id].payload, hij_log_filter, sinkOk)} :
           /\ queue' = [queue EXCEPT ![cat] = Tail(@)]
           /\ acks' = [acks EXCEPT ![id] = @ + h.acks]
           /\ events' = [events EXCEPT ![id] = h.events]
           /\ result' = [result EXCEPT ![id] = h.result]
           /\ sink' = [c \in Categories |-> Emit(sink[c], c, h.line, id)]
           /\ consumed' = [consumed EXCEPT ![t] = @ + 1]
           /\ exc' = [exc EXCEPT ![t] =
                         IF h.result \in HandlerErrors THEN "handler" ELSE "none"]
           /\ pc' = [pc EXCEPT ![t] =
                        IF h.result \in HandlerErrors THEN "finally" ELSE "consume"]
    /\ UNCHANGED <<_running, worker, should_stop, nworkers, nruns, myWorker,
                   returned, msgs>>
    /\ UNCHANGED <<stopVars, configVars>>

\* drain_events times out with nothing delivered
drain_timeout(t) ==
    /\ pc[t] = "drain"
    /\ pc' = [pc EXCEPT ![t] = "consume"]
    /\ UNCHANGED <<_running, worker, should_stop, nworkers, nruns, myWorker,
                   exc, returned, consumed>>
    /\ UNCHANGED <<stopVars, configVars, brokerVars>>

\* an error the Worker does not recover from leaves worker.run()
fatal_error(t) ==
    /\ pc[t] = "drain"
    /\ pc' = [pc EXCEPT ![t] = "finally"]
    /\ exc' = [exc EXCEPT ![t] = "fatal"]
    /\ UNCHANGED <<_running, worker, should_stop, nworkers, nruns, myWorker,
                   returned, consumed>>
    /\ UNCHANGED <<stopVars, configVars, brokerVars>>

\* run_finally that clears _running only when no exception was caught and
\* lets the exception go on to the caller
run_finally_OnlyOnSuccess(t) ==
    /\ pc[t] = "finally"
    /\ _running' = IF exc[t] = "none" THEN FALSE ELSE _running
    /\ returned' = [returned EXCEPT ![t] = IF exc[t] = "none" THEN "normal" ELSE "raised"]
    /\ pc' = [pc EXCEPT ![t] = "idle"]
    /\ lastStop' = IF lastStop = "in_run" THEN "none" ELSE lastStop
    /\ UNCHANGED <<worker, should_stop, nworkers, nruns, myWorker, exc,
                   consumed>>
    /\ UNCHANGED <<spc, stopCtx, configVars, brokerVars>>

\* except Exception: log.exception(...); finally: self._running = False
run_finally(t) ==
    /\ pc[t] = "finally"
    /\ _running' = FALSE
    /\ returned' = [returned EXCEPT ![t] = "normal"]
    /\ pc' = [pc EXCEPT ![t] = "idle"]
    /\ lastStop' = IF lastStop = "in_run" THEN "none" ELSE lastStop
    /\ UNCHANGED <<worker, should_stop, nworkers, nruns, myWorker, exc,
                   consumed>>
    /\ UNCHANGED <<spc, stopCtx, configVars, brokerVars>>

\* --------------------------------------------------------- Notifier.stop()
\* when the stop() call in progress writes, relative to the run() calls
StopKind ==
    IF \E t \in Threads : pc[t] # "idle" THEN "in_run"
    ELSE IF stopCtx = "STOPPED" THEN "stopped" ELSE "after_run"

\* if self.worker:
stop_begin ==
    /\ spc = "idle"
    /\ spc' = IF worker # NoWorker THEN "set_should_stop" ELSE "clear_running"
    /\ stopCtx' = IF State = "STOPPED" THEN "STOPPED" ELSE "other"
    /\ UNCHANGED <<lastStop, notifierVars, configVars, brokerVars>>

\* stop_set that clears _running and leaves the Worker's flag alone
stop_set_ClearsRunning ==
    /\ spc = "set_should_stop"
    /\ _running' = FALSE
    /\ spc' = "idle"
    /\ stopCtx' = "none"
    /\ lastStop' = StopKind
    /\ UNCHANGED <<worker, should_stop, nworkers, nruns, pc, myWorker, exc,
                   returned, consumed>>
    /\ UNCHANGED <<configVars, brokerVars>>

\* self.worker.should_stop = True
stop_set ==
    /\ spc = "set_should_stop"
    /\ should_stop' = [should_stop EXCEPT ![worker] = TRUE]
    /\ spc' = "idle"
    /\ stopCtx' = "none"
    /\ lastStop' = StopKind
    /\ UNCHANGED <<_running, worker, nworkers, nruns, pc, myWorker, exc,
                   returned, consumed>>
    /\ UNCHANGED <<configVars, brokerVars>>

\* else: self._running = False
stop_clear ==
    /\ spc = "clear_running"
    /\ _running' = FALSE
    /\ spc' = "idle"
    /\ stopCtx' = "none"
    /\ lastStop' = StopKind
    /\ UNCHANGED <<worker, should_stop, nworkers, nruns, pc, myWorker, exc,
                   returned, consumed>>
    /\ UNCHANGED <<configVars, brokerVars>>

\* -------------------------------------------------------------- the system
RunnerStep(t) ==
    \/ run_connect(t)
    \/ run_connect_fail(t)
    \/ loop_continue(t)
    \/ loop_exit(t)
    \/ \E cat \in Categories, sinkOk \in BOOLEAN : deliver(t, cat, sinkOk)
    \/ drain_timeout(t)
    \/ fatal_error(t)
    \/ run_finally(t)

StopStep == stop_set \/ stop_clear

\* the steps of the system when the threads in callers call run()
NextOf(callers, payloads) ==
    \/ \E cat \in Categories, payload \in payloads : Publish(cat, payload)
    \/ \E t \in callers : run_begin(t)
    \/ \E t \in callers : RunnerStep(t)
    \/ stop_begin
    \/ StopStep

NextWith(payloads) == NextOf(Runners, payloads)

Next == NextWith(Payloads)

Spec == Init /\ [][Next]_vars

\* The system under fairness, for the claims about what eventually happens:
\* the consume loop and a stop() call in progress keep taking steps; calls
\* of run() and stop() and published messages come when the callers decide.
\* With no filter rules a handler either returns (the body is logged) or
\* raises (the body cannot be decoded), the two ways it bears on the loop.
LiveInit == InitWith({EnvUnset})

FairSpec ==
    /\ LiveInit
    /\ [][Next]_vars
    /\ \A t \in Runners : WF_vars(RunnerStep(t))
    /\ WF_vars(StopStep)

\* The system with the wider inputs, for the claims about what the filter
\* and the handlers compute.
InputInit == InitWith(Texts(AllFilterConfigs))

InputNext == NextWith(AllPayloads)

InputSpec == InputInit /\ [][InputNext]_vars

\* The system when every body is a JSON object, for the claims about what
\* is written for a record.
RecordNext == NextWith(Records)

RecordSpec == Init /\ [][RecordNext]_vars

\* The system started with HIJACK_LOG_FILTER unset or malformed, for the
\* claim about what a malformed filter configuration does.
ConfigInit == InitWith({EnvUnset} \cup MalformedEnvs)

ConfigSpec == ConfigInit /\ [][Next]_vars

\* The system when run() is called from every thread of the control plane:
\* run() has no guard on _running, so a call made while another call is in
\* its consume loop goes through the same steps.
ConcNext == NextOf(Threads, Payloads)

ConcSpec == Init /\ [][ConcNext]_vars

\* ================================================================== claims
MsgIds == 1..MaxMsgs

\* the handler of message id has been called
Handled(id) == id <= Len(msgs) /\ result[id] # "pending"

\* the handler of message id got as far as the logger's filter
Filtered(id) == Handled(id) /\ result[id] \notin {"decode_error", "attribute_error"}

\* the record the filter of message id was given
RecordOf(id) ==
    LogRecord(msgs[id].cat, Dumps(msgs[id].payload),
              Get(msgs[id].payload.items, "community_annotation", "NA"))

\* accept(record, rules) as the design states it: the rule set is empty, or
\* some rule has every one of its pairs present and equal in the record
RuleMatches(rec, rule) ==
    \A k \in 1..Len(rule) :
        HasKey(rec, rule[k][1]) /\ GetItem(rec, rule[k][1]) = rule[k][2]

Accepts(rec, rules) ==
    rules = <<>> \/ \E i \in 1..Len(rules) : RuleMatches(rec, rules[i])

\* C1: every message handed to a category handler has exactly one
\* acknowledgment, whatever the handler's outcome (written, filtered out,
\* sink failure, exception), the acknowledgment is the first thing the
\* handler does, and a message no handler has seen has none.
C1_AckExactlyOnce ==
    \A id \in MsgIds :
        IF Handled(id)
        THEN /\ acks[id] = 1
             /\ events[id][1] = "ack"
             /\ \A i \in 2..Len(events[id]) : events[id][i] # "ack"
        ELSE acks[id] = 0

\* a message whose handler raised and one that was written, both acked once
C1_Witness ==
    /\ \E id \in MsgIds : Handled(id) /\ result[id] \in HandlerErrors /\ acks[id] = 1
    /\ \E id \in MsgIds : Handled(id) /\ result[id] = "written" /\ acks[id] = 1

\* C2: the filter lets a record through if and only if the rule set is
\* empty or some rule has all of its pairs equal to the record's values.
C2_AcceptIffAllPairsOfSomeRule ==
    \A id \in MsgIds :
        Filtered(id) =>
            (result[id] \in {"written", "sink_failed"}
                <=> Accepts(RecordOf(id), hij_log_filter.items))

\* C3: handling a message whose record does not pass the filter writes no
\* log line, acknowledges the message and leaves the consume loop running.
C3_RejectedIsSilentAndLoopGoesOn ==
    [][\A id \in MsgIds :
          (result[id] = "pending" /\ result'[id] \in {"filtered", "filter_error"})
          => /\ acks'[id] = 1
             /\ sink' = sink
             /\ \A t \in Runners : pc[t] = "drain" => pc'[t] = "consume"]_vars

\* C4: evaluating the filter never raises, also when a rule names a field
\* the record does not have.
C4_FilterNeverRaises ==
    \A id \in MsgIds : Handled(id) => result[id] # "filter_error"

\* C5: a per-message failure (undecodable body, body that is not a mapping,
\* filter error, sink write error) leaves the message acknowledged, the
\* consume loop running and is_running() true.
C5_MessageFailureKeepsLoop ==
    [][\A id \in MsgIds :
          (result[id] = "pending"
             /\ result'[id] \in HandlerErrors \cup {"sink_failed"})
          => /\ acks'[id] = 1
             /\ \A t \in Runners :
                    pc[t] = "drain" => (pc'[t] = "consume" /\ exc'[t] = "none")]_vars

\* C6: a stop() call made while the worker is RUNNING leads to run() having
\* returned with is_running() false, and whenever the consume loop of a
\* run() call is over, every message it handed to a handler is acknowledged.
C6_StopWhileRunningStops ==
    /\ (spc = "set_should_stop" /\ State = "RUNNING")
          ~> (~is_running /\ \A t \in Runners : pc[t] = "idle")
    /\ [](\A t \in Runners :
             pc[t] \in {"finally", "idle"}
             => \A id \in MsgIds : Handled(id) => acks[id] = 1)

\* a run() call that handled a message, saw should_stop and returned
C6_Witness ==
    \E t \in Runners :
        /\ pc[t] = "idle" /\ returned[t] = "normal" /\ exc[t] = "none"
        /\ should_stop[myWorker[t]]
        /\ consumed[t] > 0
        /\ ~is_running
        /\ \A id \in MsgIds : Handled(id) => acks[id] = 1

\* C7: is_running() is true exactly when the lifecycle state is RUNNING;
\* false while STOPPED, while STOPPING and during startup.
C7_IsRunningIffRunning == is_running <=> State = "RUNNING"

\* C8: a run() call whose startup failed (broker unreachable, declaration
\* refused) never shows is_running() true and consumes no message.
C8_FailedStartupNeverRunning ==
    \A t \in Runners :
        (pc[t] = "finally" /\ exc[t] = "startup")
        => (~is_running /\ consumed[t] = 0)

\* C9: whenever run() has come back to its caller, whatever ended it, it
\* came back normally (nothing re-raised) and is_running() is false.
C9_RunReturnsStopped ==
    \A t \in Runners :
        (pc[t] = "idle" /\ returned[t] # "none")
        => (returned[t] = "normal" /\ ~is_running)

\* a run() call ended by a fatal error while it was dispatching messages
C9_Witness ==
    \E t \in Runners :
        /\ pc[t] = "idle" /\ exc[t] = "fatal" /\ consumed[t] > 0
        /\ returned[t] = "normal" /\ ~is_running

\* C10: a stop() call that runs while the worker is STOPPED changes neither
\* the lifecycle state nor is_running(), and a run() call during which no
\* stop() has written starts with is_running() true and keeps a consume loop
\* whose should_stop flag is clear, also when an earlier stop() set the flag
\* of the Worker of an earlier run().
C10_StopWhileStoppedIsNoOp ==
    /\ [][(State = "STOPPED" /\ spc # "idle" /\ spc' = "idle")
            => (State' = "STOPPED" /\ ~is_running /\ ~is_running'
                /\ pc' = pc /\ worker' = worker)]_vars
    /\ [](\A t \in Runners :
             (pc[t] # "idle" /\ lastStop # "in_run")
             => /\ is_running
                /\ Consuming(t) => ~should_stop[myWorker[t]])

\* a second run() consuming a message after stop() was called while STOPPED
\* and set the flag of the first run's Worker
C10_Witness ==
    \E t \in Runners :
        /\ Consuming(t) /\ lastStop = "stopped" /\ consumed[t] > 0
        /\ myWorker[t] = 2 /\ should_stop[1] /\ ~should_stop[2]
        /\ is_running

\* C11: run() is valid only from STOPPED: a run() called while a consume
\* loop is RUNNING or STOPPING does not start a second consume loop, so at
\* most one consume loop is active at any time.
C11_AtMostOneConsumeLoop == Cardinality({t \in Threads : Consuming(t)}) <= 1

\* the logger's filter let message id through to the sink
Accepted(id) == Filtered(id) /\ result[id] \in {"written", "sink_failed"}

\* C12: each category has its own rule set: whether a MAIL message is
\* written depends on the record and on the mail rules only, so it is the
\* same whatever the hijack rule set (HIJACK_LOG_FILTER) is.
C12_MailDecisionIgnoresHijackRules ==
    \A id \in MsgIds :
        (Filtered(id) /\ result[id] # "filter_error" /\ msgs[id].cat = "mail-log") =>
            \A hijackRules \in AllFilterConfigs :
                Accepted(id) <=> (filter(RecordOf(id), hijackRules) = "accept")

\* C13: a failure in one category's handler or sink does not stop the other
\* category's consumer: when the handling of a message fails, the consume
\* loop that serves the other category's queue is still active, so a
\* message of the other category is still delivered and acknowledged.
C13_FailureLeavesOtherCategoryConsuming ==
    [][\A id \in MsgIds :
          (result[id] = "pending"
             /\ result'[id] \in HandlerErrors \cup {"sink_failed"})
          => \A other \in Categories \ {msgs[id].cat} :
                queue'[other] # <<>> => \E t \in Threads : Consuming(t)']_vars

\* C14: within one category, messages are acknowledged and written to the
\* category's sink in the order the queue delivered them: an acknowledged
\* message has every earlier message of its queue acknowledged, and of two
\* accepted messages the line of the earlier one comes first in the sink.
C14_CategoryOrderKept ==
    /\ \A a, b \in MsgIds :
          (a < b /\ b <= Len(msgs) /\ msgs[a].cat = msgs[b].cat /\ acks[b] > 0)
              => acks[a] > 0
    /\ \A c \in Categories : \A i, j \in 1..Len(sink[c]) :
          i < j => sink[c][i].id < sink[c][j].id

\* two messages of one category have both been written
C14_Witness ==
    \E c \in Categories :
        /\ Len(sink[c]) = 2
        /\ msgs[sink[c][1].id].cat = c
        /\ msgs[sink[c][2].id].cat = c
        /\ acks[sink[c][1].id] = 1 /\ acks[sink[c][2].id] = 1

\* the lines of every sink, each with the category of its sink
SinkLines ==
    UNION {{[cat |-> c, line |-> sink[c][i]] : i \in 1..Len(sink[c])}
              : c \in Categories}

\* C15: every written log record carries the community_annotation of the
\* message's record when the record has one and "NA" otherwise, and is
\* written to the sink of the category whose queue delivered the message.
C15_AnnotationAndSinkOfCategory ==
    /\ \A sl \in SinkLines :
          LET m == msgs[sl.line.id]
              at == {k \in 1..Len(m.payload.items) :
                        m.payload.items[k][1] = "community_annotation"}
          IN  /\ m.cat = sl.cat
              /\ m.payload.kind = "dict"
              /\ \A k \in at : sl.line.annotation = m.payload.items[k][2]
              /\ at = {} => sl.line.annotation = "NA"
    /\ \A id \in MsgIds :
          (Handled(id) /\ result[id] = "written")
              => \E sl \in SinkLines : sl.line.id = id /\ sl.cat = msgs[id].cat

\* a record with an annotation and a record without one have been written,
\* one to each sink
C15_Witness ==
    \E a, b \in SinkLines :
        /\ a.cat = "hij-log" /\ b.cat = "mail-log"
        /\ {a.line.annotation, b.line.annotation} = {"abuse123", "NA"}

\* HIJACK_LOG_FILTER is set and is not the text of a JSON list
Malformed(env) ==
    \/ env.kind = "not_json"
    \/ env.kind = "json" /\ env.value.kind # "list"

\* C16: a malformed filter configuration (text that does not parse, or that
\* parses to something other than a list of field-match objects) degrades
\* to the empty rule set: the service starts and every record is accepted.
C16_MalformedConfigAcceptsAll ==
    Malformed(HIJACK_LOG_FILTER) =>
        \A id \in MsgIds :
            (Handled(id) /\ msgs[id].payload.kind = "dict") => Accepted(id)

\* C17: a stop() that interleaves with a run() after run() has set
\* _running and before it has stored its new Worker (on the first run, or
\* on a later run while self.worker is still the previous Worker) is not
\* lost: the run() call returns and is_running() becomes false.
C17_StopDuringStartupNotLost ==
    (spc # "idle" /\ \E t \in Runners : pc[t] = "connect")
        ~> (~is_running /\ \A t \in Runners : pc[t] = "idle")

\* C18: whenever a consume loop is active is_running() is true, under any
\* interleaving of run() and stop(): is_running() is never false while
\* messages are still being consumed.
C18_ConsumingImpliesIsRunning ==
    \A t \in Threads : Consuming(t) => is_running

====
